---- MODULE Spec2Model ----
(***************************************************************************)
(* Model of the .fmu directory synchronisation engine of fmu-settings:     *)
(* two directories, each with a config record, a changelog and a mappings  *)
(* record, the changelog/mappings managers, and ProjectFMUDirectory's      *)
(* get_dir_diff / sync_dir.                                                *)
(*                                                                         *)
(* Every operation is one atomic action (the library is single-threaded    *)
(* and synchronous).  An operation that raises is modelled up to the       *)
(* statement that raises: what it persisted before stays persisted, and    *)
(* the exception is recorded in last.exc.                                  *)
(***************************************************************************)
EXTENDS Integers, Sequences, FiniteSets, TLC

\* ------------------------------------------------------------------ bounds
\* the clock runs to MaxTime; a behaviour makes at most MaxOps calls
MaxTime == 1
MaxOps == 2

\* --------------------------------------------------------------- constants
\* the two directories: sync_dir is called on Current with Incoming
Current == 1
Incoming == 2
Dirs == {Current, Incoming}
\* values of an optional field: None is the empty tuple, a value is wrapped
None == << >>
Some(x) == <<x>>
\* _MISSING_KEY = object(): distinct from every stored value, None included
MISSING == <<-1, -1>>

\* members of the enumerations and literals as declared by the models
ChangeType == {"update", "remove", "add", "reset"}
FilterType == {"number", "string", "data"}
FilterOperator == {">=", "<=", "==", "!="}
FilterTypeLiteral == {"str", "number", "datetime"}
ChangeInfoFile == {"config.json"}

\* the instance attributes vars(self) yields, in the order __init__ sets them
DirVars == <<"config", "base_path", "_lock", "_cache_manager", "_changelog",
             "_mappings", "_path">>

\* the fields of the config record, in declaration order
ConfigFields == <<"created_at", "created_by", "cache_max_revisions",
                  "masterdata">>
\* fields the config diff never reports
DiffIgnore == {"created_at", "created_by"}
\* the values set_config_value is called with, per field
CfgValues(k) ==
  CASE k = "cache_max_revisions" -> {Some(5), Some(10)}
    [] k = "masterdata" -> {None, Some(1)}
    [] k = "created_by" -> {Some(1), Some(2)}
    [] OTHER -> {}
SettableFields == {"cache_max_revisions", "masterdata", "created_by"}
MIN_REVISIONS == 5

StratValues == {<< >>, <<"m0">>, <<"m1">>}
\* the Mappings records handed to save and to merge_changes: each
\* sub-collection null or not
MappingsValues == [stratigraphy : {None, Some(<<"m1">>)},
                   wells : {None, Some("test")}]
\* the arguments of a direct log_update_to_changelog call: the (key, value)
\* pairs and the snapshot of the document before the update (x absent, x
\* null, x set)
UpdateArgs ==
  {[updates |-> <<[key |-> "x", new |-> Some(1)]>>, old |-> << >>],
   [updates |-> <<[key |-> "x", new |-> Some(1)]>>, old |-> [x |-> None]],
   [updates |-> <<[key |-> "x", new |-> Some(2)]>>, old |-> [x |-> Some(1)]],
   [updates |-> <<[key |-> "x", new |-> Some(2)], [key |-> "y", new |-> None]>>,
    old |-> [x |-> Some(1)]]}

\* the filters filter_log is called with: on a string column and on the
\* timestamp column, the operator set after construction so that one
\* outside the declared literals reaches filter_log
Filters ==
  [field_name : {"key"}, filter_value : {"test_key"}, filter_type : {"str"},
   operator : FilterOperator \cup {">"}]
  \cup
  [field_name : {"timestamp"}, filter_value : {MaxTime},
   filter_type : {"datetime"}, operator : FilterOperator \cup {">"}]

\* the owners of the write lock: this process and another host/process
Owners == {"self", "other"}
\* the files write_file and write_text_file are called with, the bytes and
\* the texts written
Paths == {"blocked.txt", "nested/file.dat"}
Data == {<<0>>, <<98>>}
Texts == {"b", "c"}
\* content.encode("utf-8") of the texts
Encode(content) == IF content = "b" THEN <<98>> ELSE <<99>>
\* the directories between .fmu and the file
Parents(relative_path) ==
  IF relative_path = "nested/file.dat" THEN {"nested"} ELSE {}

\* str(value) as the change descriptions render it
Str(v) == IF v = None THEN "None" ELSE ToString(v[1])

VARIABLES dir, now, last, ops
vars == <<dir, now, last, ops>>

\* ----------------------------------------------------------------- helpers
IsPrefix(s, t) == Len(s) <= Len(t) /\ SubSeq(t, 1, Len(s)) = s
Last(s) == s[Len(s)]
RECURSIVE SelectIdx(_, _, _)
\* the subsequence of s at the positions in keep, order preserved
SelectIdx(s, keep, i) ==
  IF i > Len(s) THEN << >>
  ELSE (IF i \in keep THEN <<s[i]>> ELSE << >>) \o SelectIdx(s, keep, i + 1)

\* results of an operation on one directory: the directory afterwards, the
\* exception raised ("none" when it returned) and the value returned
Ok(D, v) == [d |-> D, exc |-> "none", val |-> v]
Raise(D, e) == [d |-> D, exc |-> e, val |-> << >>]

\* -------------------------------------------------------------- models/log
\* a log that puts the new entry first
add_entry_prepend(root, entry) == <<entry>> \o root

\* Log.add_entry: self.root.append(entry)
add_entry(root, entry) == Append(root, entry)

\* ChangeInfo(...): pydantic validates the fields on construction
ChangeInfoValid(e) ==
  /\ e.change_type \in ChangeType
  /\ e.file \in ChangeInfoFile

\* ---------------------------------------------------------- LogManager
\* an add_log_entry that opens (and so creates) the log before it validates
add_log_entry_create_first(D, entry) ==
  LET root == IF D.logE THEN D.log ELSE << >>
      opened == [D EXCEPT !.logE = TRUE, !.log = root]
  IN IF ~ChangeInfoValid(entry) THEN Raise(opened, "ValueError")
     ELSE Ok([opened EXCEPT !.log = add_entry(root, entry), !.df = None],
             << >>)

\* an add_log_entry that leaves the cached dataframe in place
add_log_entry_keep_cache(D, entry) ==
  IF ~ChangeInfoValid(entry) THEN Raise(D, "ValueError")
  ELSE LET root == IF D.logE THEN D.log ELSE << >>
       IN Ok([D EXCEPT !.logE = TRUE, !.log = add_entry(root, entry)], << >>)

\* LogManager.add_log_entry: validate, load or start an empty log, append,
\* save, drop the cached dataframe; a ValidationError becomes a ValueError
add_log_entry(D, entry) ==
  IF ~ChangeInfoValid(entry) THEN Raise(D, "ValueError")
  ELSE LET root == IF D.logE THEN D.log ELSE << >>
       IN Ok([D EXCEPT !.logE = TRUE, !.log = add_entry(root, entry),
                       !.df = None], << >>)

\* df_log[filter.field_name] <op> filter.filter_value for one row: the
\* columns are the fields of the entries; the timestamp column is ordered,
\* the string columns are compared for equality only
RowKeeps(row, filter) ==
  CASE filter.operator = "==" -> row[filter.field_name] = filter.filter_value
    [] filter.operator = "!=" -> row[filter.field_name] # filter.filter_value
    [] filter.operator = "<=" -> row.timestamp <= filter.filter_value
    [] filter.operator = ">=" -> row.timestamp >= filter.filter_value
    [] OTHER -> FALSE

\* df_log[df_log[field] <op> value] and to_dict("records"): the rows kept,
\* in the order of the table; pandas.DataFrame([]) has no columns, so
\* selecting a column of the table of an empty log raises KeyError
FilterRows(D, filter) ==
  IF D.df[1] = << >> THEN Raise(D, "KeyError")
  ELSE Ok(D, SelectSeq(D.df[1], LAMBDA row : RowKeeps(row, filter)))

\* a match on the operator that orders 'str' fields as well (every row kept)
FilterMatchStrOrdered(D, filter) ==
  IF filter.operator \in {"<=", ">="} /\ filter.filter_type = "str"
  THEN Ok(D, D.df[1])
  ELSE IF filter.operator \in {"==", "!=", "<=", ">="}
  THEN FilterRows(D, filter)
  ELSE Raise(D, "ValueError")

\* the match on filter.operator of filter_log, D.df being the cached table
FilterMatch(D, filter) ==
  IF filter.operator \in {"==", "!="} THEN FilterRows(D, filter)
  ELSE IF filter.operator \in {"<=", ">="}
  THEN IF filter.filter_type = "str" THEN Raise(D, "ValueError")
       ELSE FilterRows(D, filter)
  ELSE Raise(D, "ValueError")

\* LogManager.filter_log: build and cache the table of the persisted log if
\* none is cached (FileNotFoundError without a log file), then filter it
filter_log(D, filter) ==
  IF D.df = None
  THEN IF ~D.logE THEN Raise(D, "FileNotFoundError")
       ELSE FilterMatch([D EXCEPT !.df = Some(D.log)], filter)
  ELSE FilterMatch(D, filter)

\* ---------------------------------------------------- ChangelogManager
\* a lookup that takes a stored None for a missing key
DictGetNoneMissing(old, key) ==
  IF key \in DOMAIN old /\ old[key] # None THEN old[key] ELSE MISSING

\* dict.get(key, _MISSING_KEY) on the snapshot of the resource
DictGet(old, key) == IF key \in DOMAIN old THEN old[key] ELSE MISSING

RECURSIVE log_update_to_changelog(_, _, _, _, _, _)
\* ChangelogManager.log_update_to_changelog: one ChangeInfo per (key, value)
\* of updates, in dict order, each appended with add_log_entry.  updates is
\* a sequence of [key, new]; old is the dict of the resource before the update
log_update_to_changelog(D, updates, old, relative_path, t, p) ==
  IF updates = << >> THEN Ok(D, << >>)
  ELSE LET key == updates[1].key
           new_value == updates[1].new
           old_value == DictGet(old, key)
           change_entry ==
             [timestamp |-> t,
              change_type |-> IF old_value # MISSING THEN "update" ELSE "add",
              path |-> p,
              change |-> IF old_value # MISSING
                         THEN <<"Updated", key, Str(old_value), Str(new_value)>>
                         ELSE <<"Added", key, Str(new_value)>>,
              file |-> relative_path,
              key |-> key]
       IN IF ~ChangeInfoValid(change_entry) THEN Raise(D, "ValidationError")
          ELSE LET r == add_log_entry(D, change_entry)
               IN IF r.exc # "none" THEN r
                  ELSE log_update_to_changelog(r.d, Tail(updates), old,
                                               relative_path, t, p)

RECURSIVE ResourcesString(_)
\* ", ".join(f"'{resource}'" for resource in merged_resources)
ResourcesString(merged_resources) ==
  IF merged_resources = << >> THEN ""
  ELSE "'" \o merged_resources[1] \o "'" \o
       (IF Len(merged_resources) > 1 THEN ", " ELSE "") \o
       ResourcesString(Tail(merged_resources))

\* ChangelogManager.log_merge_to_changelog: builds the merge entry with
\* change_type=ChangeType.merge and appends it.  Looking up a name that is
\* not a member of the enumeration raises AttributeError before anything is
\* written.
log_merge_to_changelog(D, source_path, incoming_path, merged_resources, t) ==
  IF "merge" \notin ChangeType THEN Raise(D, "AttributeError")
  ELSE LET e == [timestamp |-> t,
                 change_type |-> "merge",
                 path |-> source_path,
                 change |-> <<"Merged", ToString(incoming_path),
                              ToString(source_path)>> \o merged_resources,
                 file |-> ResourcesString(merged_resources),
                 key |-> ".fmu"]
       IN IF ~ChangeInfoValid(e) THEN Raise(D, "ValidationError")
          ELSE add_log_entry(D, e)

\* ChangelogManager._get_latest_change_timestamp: self.load()[-1].timestamp
\* (indexing an empty list raises IndexError)
LatestRaises(D) == Len(D.log) = 0
_get_latest_change_timestamp(D) == Last(D.log).timestamp

\* LogManager.filter_log restricted to the timestamp column: the positions
\* of the rows the operator keeps; an operator outside the four branches
\* falls to "case _" and raises ValueError
FilterLogKeeps(root, operator, value) ==
  CASE operator = "==" -> {i \in 1..Len(root) : root[i].timestamp = value}
    [] operator = "!=" -> {i \in 1..Len(root) : root[i].timestamp # value}
    [] operator = "<=" -> {i \in 1..Len(root) : root[i].timestamp <= value}
    [] operator = ">=" -> {i \in 1..Len(root) : root[i].timestamp >= value}
    [] OTHER -> {}
FilterLogRaises(operator) == operator \notin {"==", "!=", "<=", ">="}

\* a changelog diff without the cursor: every entry of the incoming log
get_changelog_diff_all(C, I) ==
  IF C.logE /\ I.logE THEN Ok(C, I.log) ELSE Raise(C, "FileNotFoundError")

\* a changelog diff that answers a missing file with an empty diff
get_changelog_diff_silent(C, I) ==
  IF C.logE /\ I.logE
  THEN IF LatestRaises(C) THEN Raise(C, "IndexError")
       ELSE Raise(C, "AttributeError")
  ELSE Ok(C, << >>)

\* ChangelogManager.get_changelog_diff(self = C, incoming = I): with both
\* files present it takes the latest timestamp of C, then builds
\* Filter(filter_type=FilterType.date, operator=">") and filters I's log
get_changelog_diff(C, I) ==
  IF C.logE /\ I.logE
  THEN IF LatestRaises(C) THEN Raise(C, "IndexError")
       ELSE IF "date" \notin FilterType THEN Raise(C, "AttributeError")
       ELSE IF ">" \notin FilterOperator \/ "date" \notin FilterTypeLiteral
            THEN Raise(C, "ValidationError")
       ELSE IF FilterLogRaises(">") THEN Raise(C, "ValueError")
       ELSE Ok(C, SelectIdx(I.log,
                    FilterLogKeeps(I.log, ">", _get_latest_change_timestamp(C)),
                    1))
  ELSE Raise(C, "FileNotFoundError")

\* ChangelogManager.merge_changes: add_log_entry for every entry, then load()
RECURSIVE changelog_merge_changes(_, _)
changelog_merge_changes(D, change) ==
  IF change = << >>
  THEN IF D.logE THEN Ok(D, D.log) ELSE Raise(D, "FileNotFoundError")
  ELSE LET r == add_log_entry(D, change[1])
       IN IF r.exc # "none" THEN r
          ELSE changelog_merge_changes(r.d, Tail(change))

\* ------------------------------------------------- ProjectConfigManager
\* get_resource_diff: a [key, old, new] change for every field outside the
\* diff-ignore set whose values differ, in field order; old is reported as
\* None; a missing file on either side raises FileNotFoundError
RECURSIVE ConfigChanges(_, _, _)
ConfigChanges(cur, inc, fields) ==
  IF fields = << >> THEN << >>
  ELSE (IF fields[1] \notin DiffIgnore /\ cur[fields[1]] # inc[fields[1]]
        THEN <<[key |-> fields[1], old |-> None, new |-> inc[fields[1]]]>>
        ELSE << >>) \o ConfigChanges(cur, inc, Tail(fields))

get_resource_diff(C, I) ==
  IF C.cfgE /\ I.cfgE THEN Ok(C, ConfigChanges(C.cfg, I.cfg, ConfigFields))
  ELSE Raise(C, "FileNotFoundError")

\* a value the config model accepts for the field
ConfigValueValid(key, value) == value \in CfgValues(key)

\* config.set(key, value): load, set the field, validate, save, then log the
\* update against the pre-update snapshot
config_set(D, key, value, t, p) ==
  IF ~D.cfgE THEN Raise(D, "FileNotFoundError")
  ELSE IF ~ConfigValueValid(key, value) THEN Raise(D, "ValueError")
  ELSE LET old_config_dict == D.cfg
           saved == [D EXCEPT !.cfg = [D.cfg EXCEPT ![key] = value]]
       IN log_update_to_changelog(saved, <<[key |-> key, new |-> value]>>,
                                  old_config_dict, "config.json", t, p)

\* config.merge_changes(changes): set every listed field, then load()
RECURSIVE config_merge_changes(_, _, _, _)
config_merge_changes(D, changes, t, p) ==
  IF changes = << >>
  THEN IF D.cfgE THEN Ok(D, D.cfg) ELSE Raise(D, "FileNotFoundError")
  ELSE LET r == config_set(D, changes[1].key, changes[1].new, t, p)
       IN IF r.exc # "none" THEN r
          ELSE config_merge_changes(r.d, Tail(changes), t, p)

\* ------------------------------------------------------ MappingsManager
\* Mappings(stratigraphy=StratigraphyMappings(root=[]))
EmptyMappings == [stratigraphy |-> Some(<< >>), wells |-> None]

\* the assignment mappings.stratigraphy = strat_mappings
SetStratigraphy(mappings, strat_mappings) ==
  [mappings EXCEPT !.stratigraphy = Some(strat_mappings)]

\* MappingsManager.update_stratigraphy_mappings: load or start from empty
\* stratigraphy, replace the stratigraphy, save, then log the update
ReturnStratigraphy(r) ==
  IF r.exc # "none" THEN r ELSE Ok(r.d, r.d.map.stratigraphy)

update_stratigraphy_mappings(D, strat_mappings, t, p) ==
  LET mappings == IF D.mapE THEN D.map ELSE EmptyMappings
      old_mappings_dict == mappings
      saved == [D EXCEPT !.mapE = TRUE,
                         !.map = SetStratigraphy(mappings, strat_mappings)]
  IN ReturnStratigraphy(
       log_update_to_changelog(
         saved, <<[key |-> "stratigraphy", new |-> Some(strat_mappings)]>>,
         old_mappings_dict, "mappings.json", t, p))

\* MappingsManager.update_well_mappings
update_well_mappings(D) == Raise(D, "NotImplementedError")

\* a mappings diff that keeps only the sub-collections that differ
get_mappings_diff_changed(C, I) ==
  IF C.mapE /\ I.mapE
  THEN Ok(C, [stratigraphy |-> IF I.map.stratigraphy = C.map.stratigraphy
                               THEN None ELSE I.map.stratigraphy,
              wells |-> IF I.map.wells = C.map.wells
                        THEN None ELSE I.map.wells])
  ELSE Raise(C, "FileNotFoundError")

\* a mappings diff that also stores the incoming record in the current file
get_mappings_diff_merging(C, I) ==
  IF C.mapE /\ I.mapE THEN Ok([C EXCEPT !.map = I.map], I.map)
  ELSE Raise(C, "FileNotFoundError")

\* a mappings diff that loads the record of the wrong side
get_mappings_diff_current(C, I) ==
  IF C.mapE /\ I.mapE THEN Ok(C, C.map) ELSE Raise(C, "FileNotFoundError")

\* MappingsManager.get_mappings_diff: the whole incoming record
get_mappings_diff(C, I) ==
  IF C.mapE /\ I.mapE THEN Ok(C, I.map) ELSE Raise(C, "FileNotFoundError")

\* MappingsManager.merge_changes, from the result r of each statement on:
\* the stratigraphy update, the wells update, the closing load()
MergeStratigraphy(D, changes, t, p) ==
  IF changes.stratigraphy # None
  THEN update_stratigraphy_mappings(D, changes.stratigraphy[1], t, p)
  ELSE Ok(D, << >>)

MergeWells(r, changes) ==
  IF r.exc # "none" THEN r
  ELSE IF changes.wells # None THEN update_well_mappings(r.d)
  ELSE r

LoadMappings(r) ==
  IF r.exc # "none" THEN r
  ELSE IF r.d.mapE THEN Ok(r.d, r.d.map)
  ELSE Raise(r.d, "FileNotFoundError")

mappings_merge_changes(D, changes, t, p) ==
  LoadMappings(MergeWells(MergeStratigraphy(D, changes, t, p), changes))

\* ---------------------------------------------------------- LockManager
\* LockManager.ensure_can_write: PermissionError while another owner holds
\* the write lock
ensure_can_write(D) ==
  IF D.lockOwner \notin {"none", "self"} THEN Raise(D, "PermissionError")
  ELSE Ok(D, << >>)

\* ------------------------------------------------------- FMUDirectoryBase
\* the statements of write_file and write_text_file after the writable
\* check: mkdir(parents=True, exist_ok=True) and the write itself
WriteBytes(D, relative_path, data) ==
  Ok([D EXCEPT !.subdirs = @ \cup Parents(relative_path),
               !.files[relative_path] = Some(data)], << >>)

\* a write_file that writes first and checks the lock afterwards
write_file_then_check(D, relative_path, data) ==
  ensure_can_write(WriteBytes(D, relative_path, data).d)

\* FMUDirectoryBase.write_file
write_file(D, relative_path, data) ==
  IF ensure_can_write(D).exc # "none" THEN ensure_can_write(D)
  ELSE WriteBytes(D, relative_path, data)

\* FMUDirectoryBase.write_text_file
write_text_file(D, relative_path, content) ==
  IF ensure_can_write(D).exc # "none" THEN ensure_can_write(D)
  ELSE WriteBytes(D, relative_path, Encode(content))

\* --------------------------------------------------- ProjectFMUDirectory
\* a _sync_runtime_variables that leaves the cache manager alone
_sync_runtime_variables_skip(D) == D

\* ProjectFMUDirectory._sync_runtime_variables
_sync_runtime_variables(D) ==
  LET max_revisions_from_config == D.cfg.cache_max_revisions[1]
  IN IF D.maxRev # max_revisions_from_config
     THEN [D EXCEPT !.maxRev = max_revisions_from_config]
     ELSE D

\* the dict get_dir_diff builds: keys in insertion order and, per resource,
\* the payload of its change list
EmptyDirDiff == [keys |-> << >>, config |-> << >>, changelog |-> << >>,
                 mappings |-> None]

\* one iteration of the loop of get_dir_diff: the match on the attribute
\* name; d is the current directory as the diff of the resource leaves it
DiffResource(acc, resource, C, I) ==
  CASE resource = "config" ->
         LET r == get_resource_diff(C, I)
         IN [exc |-> r.exc, d |-> r.d,
             diff |-> [acc EXCEPT !.keys = Append(@, resource),
                                  !.config = r.val]]
    [] resource = "_mappings" ->
         LET r == get_mappings_diff(C, I)
         IN [exc |-> r.exc, d |-> r.d,
             diff |-> [acc EXCEPT !.keys = Append(@, resource),
                                  !.mappings = Some(r.val)]]
    [] resource = "_changelog" ->
         LET r == get_changelog_diff(C, I)
         IN [exc |-> r.exc, d |-> r.d,
             diff |-> [acc EXCEPT !.keys = Append(@, resource),
                                  !.changelog = r.val]]
    [] OTHER -> [exc |-> "continue", d |-> C, diff |-> acc]

\* the exceptions the loop of get_dir_diff swallows
DiffSwallows == {"AttributeError", "FileNotFoundError", "continue"}

RECURSIVE DirDiffLoop(_, _, _, _)
DirDiffLoop(acc, resources, C, I) ==
  IF resources = << >> THEN [exc |-> "none", d |-> C, diff |-> acc]
  ELSE LET r == DiffResource(acc, resources[1], C, I)
       IN IF r.exc = "none" THEN DirDiffLoop(r.diff, Tail(resources), r.d, I)
          ELSE IF r.exc \in DiffSwallows
               THEN DirDiffLoop(acc, Tail(resources), r.d, I)
          ELSE [exc |-> r.exc, d |-> r.d, diff |-> acc]

\* ProjectFMUDirectory.get_dir_diff(self = C, new_fmu_dir = I)
get_dir_diff(C, I) == DirDiffLoop(EmptyDirDiff, DirVars, C, I)

InSeq(x, s) == \E i \in 1..Len(s) : s[i] = x
Without(s, x) == SelectSeq(s, LAMBDA y : y # x)

\* len(changes_in_dir[resource])
ChangesLen(diff, resource) ==
  CASE resource = "config" -> Len(diff.config)
    [] resource = "_changelog" -> IF Len(diff.changelog) > 0 THEN 1 ELSE 0
    [] resource = "_mappings" -> 1

\* the body of the loop of sync_dir for one resource: merge_changes of the
\* resource, and for the config _sync_runtime_variables afterwards (neither
\* branch is taken for any other resource)
SyncRuntime(m) ==
  IF m.exc # "none" THEN m ELSE Ok(_sync_runtime_variables(m.d), m.val)

MergeResource(D, resource, diff, t, p) ==
  IF resource = "config"
  THEN SyncRuntime(config_merge_changes(D, diff.config, t, p))
  ELSE IF resource = "_mappings"
  THEN mappings_merge_changes(D, diff.mappings[1], t, p)
  ELSE Ok(D, << >>)

\* the loop of sync_dir without the "len(changes) == 0: continue" skip
RECURSIVE SyncLoopNoSkip(_, _, _, _, _, _)
SyncLoopNoSkip(D, resources, diff, updates, t, p) ==
  IF resources = << >> THEN [d |-> D, exc |-> "none", updates |-> updates]
  ELSE LET r == MergeResource(D, resources[1], diff, t, p)
       IN IF r.exc # "none"
          THEN [d |-> r.d, exc |-> r.exc, updates |-> updates]
          ELSE SyncLoopNoSkip(r.d, Tail(resources), diff,
                              Append(updates, resources[1]), t, p)

\* the loop of sync_dir over the resources left after the changelog merge
RECURSIVE SyncLoop(_, _, _, _, _, _)
SyncLoop(D, resources, diff, updates, t, p) ==
  IF resources = << >> THEN [d |-> D, exc |-> "none", updates |-> updates]
  ELSE IF ChangesLen(diff, resources[1]) = 0
       THEN SyncLoop(D, Tail(resources), diff, updates, t, p)
       ELSE LET r == MergeResource(D, resources[1], diff, t, p)
            IN IF r.exc # "none"
               THEN [d |-> r.d, exc |-> r.exc, updates |-> updates]
               ELSE SyncLoop(r.d, Tail(resources), diff,
                             Append(updates, resources[1]), t, p)

\* what a sync_dir call leaves: the directory, the exception, the keys of the
\* dict it would return, the diff it took and the statement it ended in
SyncResult(D, exc, updates, diff, stage) ==
  [d |-> D, exc |-> exc, updates |-> updates, diff |-> diff, stage |-> stage]

\* sync_dir from log_merge_to_changelog on, r3 being its result
SyncReturn(r3, updates, diff) ==
  SyncResult(r3.d, r3.exc, updates, diff,
             IF r3.exc = "none" THEN "returned" ELSE "log_merge_to_changelog")

\* sync_dir after the loop over the resources, r2 being the loop's result
SyncLogMerge(r2, diff, t, pc, pi) ==
  IF r2.exc # "none"
  THEN SyncResult(r2.d, r2.exc, r2.updates, diff, "merge_resources")
  ELSE SyncReturn(log_merge_to_changelog(r2.d, pc, pi, r2.updates, t),
                  r2.updates, diff)

\* sync_dir after the changelog merge, r1 being its result and rest the
\* resources still to merge
SyncResources(r1, rest, updates1, diff, t, pc, pi) ==
  IF r1.exc # "none"
  THEN SyncResult(r1.d, r1.exc, << >>, diff, "merge_changelog")
  ELSE SyncLogMerge(SyncLoop(r1.d, rest, diff, updates1, t, pc),
                    diff, t, pc, pi)

\* sync_dir with its diff in hand: the changelog is merged first and popped
SyncChangelog(C, changes_in_dir, t, pc, pi) ==
  IF InSeq("_changelog", changes_in_dir.keys)
     /\ ChangesLen(changes_in_dir, "_changelog") > 0
  THEN SyncResources(changelog_merge_changes(C, changes_in_dir.changelog),
                     Without(changes_in_dir.keys, "_changelog"),
                     <<"_changelog">>, changes_in_dir, t, pc, pi)
  ELSE SyncResources(Ok(C, << >>), changes_in_dir.keys, << >>,
                     changes_in_dir, t, pc, pi)

\* sync_dir after get_dir_diff, dd being its result
SyncDiffed(C, dd, t, pc, pi) ==
  IF dd.exc # "none"
  THEN SyncResult(dd.d, dd.exc, << >>, dd.diff, "get_dir_diff")
  ELSE SyncChangelog(dd.d, dd.diff, t, pc, pi)

\* ProjectFMUDirectory.sync_dir(self = C at path pc, new_fmu_dir = I at pi):
\* diff, merge the changelog first, then the other resources, then log the
\* merge
sync_dir(C, I, t, pc, pi) == SyncDiffed(C, get_dir_diff(C, I), t, pc, pi)

\* -------------------------------------------------------------- the state
\* config.json as init_fmu_directory writes it
InitialConfig == [created_at |-> Some(0), created_by |-> Some(1),
                  cache_max_revisions |-> Some(MIN_REVISIONS),
                  masterdata |-> None]

\* a directory right after ProjectFMUDirectory(base_path): a config file, no
\* changelog and no mappings file yet, the cache limit read from the config
InitialDir == [cfgE |-> TRUE, cfg |-> InitialConfig,
               logE |-> FALSE, log |-> << >>, df |-> None,
               mapE |-> FALSE, map |-> EmptyMappings,
               maxRev |-> MIN_REVISIONS,
               lockOwner |-> "none",
               files |-> [f \in Paths |-> None], subdirs |-> {}]

\* what the last call did: its name, the directories it ran on, the
\* exception it raised ("none" when it returned), its results, and the
\* length of c's changelog before it
NoLast == [op |-> "init", c |-> 0, i |-> 0, exc |-> "none",
           diff |-> EmptyDirDiff,
           updates |-> << >>, ret |-> << >>, stage |-> "", len0 |-> 0,
           args |-> << >>, prev |-> ""]

\* the entries callers hand to add_log_entry: any timestamp, a change type
\* that may have been invalidated after construction
DirectEntries ==
  [timestamp : {0, now}, change_type : {"add", "invalid change_type"},
   path : {0}, change : {<<"some change">>}, file : {"config.json"},
   key : {"test_key"}]

\* every call counts against MaxOps
Call == ops < MaxOps /\ ops' = ops + 1

\* a directory that has been in use: one entry in its changelog and a
\* mappings file, as add_log_entry and _mappings.save leave them
UsedEntry == [timestamp |-> 0, change_type |-> "add", path |-> 0,
              change |-> <<"some change">>, file |-> "config.json",
              key |-> "test_key"]
UsedDir == [InitialDir EXCEPT !.logE = TRUE, !.log = <<UsedEntry>>,
                              !.mapE = TRUE,
                              !.map = [stratigraphy |-> Some(<<"m0">>),
                                       wells |-> None]]

\* a used directory whose changelog has been filtered: the table is cached
FilteredDir == [UsedDir EXCEPT !.df = Some(UsedDir.log)]

\* filter_log is called on the current directory only
Init ==
  /\ dir \in {d \in [Dirs -> {InitialDir, UsedDir, FilteredDir}] :
                d[Incoming] # FilteredDir}
  /\ now = 0
  /\ last = NoLast
  /\ ops = 0

\* datetime.now(UTC) moves on between operations
Tick ==
  /\ now < MaxTime
  /\ now' = now + 1
  /\ UNCHANGED <<dir, last, ops>>

\* one call on directory c alone, with arguments args and result r
Did(op, c, r, args) ==
  /\ Call
  /\ dir' = [dir EXCEPT ![c] = r.d]
  /\ last' = [NoLast EXCEPT !.op = op, !.c = c, !.exc = r.exc,
                            !.ret = r.val, !.len0 = Len(dir[c].log),
                            !.args = args]
  /\ UNCHANGED now

Local(op, c, r) == Did(op, c, r, << >>)

\* fmu_dir._changelog.add_log_entry(entry)
AddLogEntry ==
  \E c \in Dirs, e \in DirectEntries :
    Did("add_log_entry", c, add_log_entry(dir[c], e), e)

\* fmu_dir._changelog.filter_log(filter)
FilterLog ==
  \E c \in {Current}, f \in Filters :
    Did("filter_log", c, filter_log(dir[c], f), f)

\* fmu_dir.set_config_value(key, value)
SetConfigValue ==
  \E c \in Dirs, k \in SettableFields :
    \E v \in CfgValues(k) : Local("set_config_value", c, config_set(dir[c], k, v, now, c))

\* fmu_dir._mappings.update_stratigraphy_mappings(strat_mappings)
UpdateStratigraphy ==
  \E c \in Dirs, m \in StratValues :
    Did("update_stratigraphy_mappings", c,
        update_stratigraphy_mappings(dir[c], m, now, c), m)

\* fmu_dir._mappings.save(mappings)
SaveMappings ==
  \E c \in Dirs, m \in MappingsValues :
    Local("save_mappings", c, Ok([dir[c] EXCEPT !.mapE = TRUE, !.map = m], << >>))

\* fmu_dir._mappings.merge_changes(changes)
MergeMappings ==
  \E c \in {Current}, m \in MappingsValues :
    Did("mappings_merge_changes", c,
        mappings_merge_changes(dir[c], m, now, c), m)

\* fmu_dir._changelog.log_update_to_changelog(updates, old_resource_dict,
\* relative_path)
LogUpdate ==
  \E c \in {Current}, a \in UpdateArgs :
    Did("log_update_to_changelog", c,
        log_update_to_changelog(dir[c], a.updates, a.old, "config.json",
                                now, c),
        a)

\* fmu_dir._sync_runtime_variables(): config.load() raises without a file
SyncRuntimeVariables ==
  \E c \in {Current} :
    Local("_sync_runtime_variables", c,
          IF ~dir[c].cfgE THEN Raise(dir[c], "FileNotFoundError")
          ELSE Ok(_sync_runtime_variables(dir[c]), << >>))

\* fmu_dir.config.path.unlink(): the config file is removed
UnlinkConfig ==
  \E c \in Dirs :
    /\ dir[c].cfgE
    /\ Local("unlink_config", c,
             Ok([dir[c] EXCEPT !.cfgE = FALSE, !.cfg = InitialConfig], << >>))

\* fmu_dir._changelog.save(Log([])): a changelog file holding no entries
SaveEmptyLog ==
  \E c \in Dirs :
    /\ ~dir[c].logE
    /\ Local("save_empty_log", c, Ok([dir[c] EXCEPT !.logE = TRUE, !.log = << >>], << >>))

\* current._changelog.merge_changes(incoming._changelog.load().root)
MergeChanges ==
  \E c \in {Current} : \E i \in {Incoming} :
    /\ dir[i].logE
    /\ Local("merge_changes", c, changelog_merge_changes(dir[c], dir[i].log))

\* current._changelog.get_changelog_diff(incoming._changelog)
GetChangelogDiff ==
  \E c \in {Current} : \E i \in {Incoming} :
    LET r == get_changelog_diff(dir[c], dir[i])
    IN /\ Call
       /\ dir' = [dir EXCEPT ![c] = r.d]
       /\ last' = [NoLast EXCEPT !.op = "get_changelog_diff", !.c = c, !.i = i,
                                 !.exc = r.exc, !.ret = r.val]
       /\ UNCHANGED now

\* current._mappings.get_mappings_diff(incoming._mappings)
GetMappingsDiff ==
  \E c \in {Current} : \E i \in {Incoming} :
    LET r == get_mappings_diff(dir[c], dir[i])
    IN /\ Call
       /\ dir' = [dir EXCEPT ![c] = r.d]
       /\ last' = [NoLast EXCEPT !.op = "get_mappings_diff", !.c = c, !.i = i,
                                 !.exc = r.exc, !.ret = r.val]
       /\ UNCHANGED now

\* current.get_dir_diff(incoming)
GetDirDiff ==
  \E c \in {Current} : \E i \in {Incoming} :
    LET r == get_dir_diff(dir[c], dir[i])
    IN /\ Call
       /\ dir' = [dir EXCEPT ![c] = r.d]
       /\ last' = [NoLast EXCEPT !.op = "get_dir_diff", !.c = c, !.i = i,
                                 !.exc = r.exc, !.diff = r.diff]
       /\ UNCHANGED now

\* updates["_changelog"] of a sync_dir call that returned: the Log object
\* merge_changes got from load(), which the later appends extend as well
\* (load() hands out the manager's cached object)
ReturnedChangelog(r) ==
  IF r.exc = "none" /\ InSeq("_changelog", r.updates) THEN r.d.log ELSE << >>

\* what a sync_dir call leaves in last; prev is the call made before it
SyncLast(c, i, r) ==
  [NoLast EXCEPT !.op = "sync_dir", !.c = c, !.i = i,
                 !.exc = r.exc, !.diff = r.diff,
                 !.updates = r.updates, !.stage = r.stage,
                 !.ret = ReturnedChangelog(r),
                 !.len0 = Len(dir[c].log), !.prev = last.op]

\* a sync_dir that also hands current's changelog to the incoming directory
SyncedBothWays(c, i, r) ==
  /\ Call
  /\ dir' = [dir EXCEPT ![c] = r.d,
                        ![i] = [@ EXCEPT !.logE = r.d.logE, !.log = r.d.log]]
  /\ last' = SyncLast(c, i, r)
  /\ UNCHANGED now

\* a sync_dir that restores current as it was when a merge raises
SyncedRolledBack(c, i, r) ==
  /\ Call
  /\ dir' = IF r.exc = "none" THEN [dir EXCEPT ![c] = r.d] ELSE dir
  /\ last' = SyncLast(c, i, r)
  /\ UNCHANGED now

\* current.sync_dir(incoming)
Synced(c, i, r) ==
  /\ Call
  /\ dir' = [dir EXCEPT ![c] = r.d]
  /\ last' = SyncLast(c, i, r)
  /\ UNCHANGED now

SyncDir ==
  \E c \in {Current} : \E i \in {Incoming} :
    Synced(c, i, sync_dir(dir[c], dir[i], now, c, i))

\* lock.acquire() by an owner: the tests acquire a lock that is free
AcquireLock ==
  \E c \in {Current}, o \in Owners :
    /\ dir[c].lockOwner = "none"
    /\ Did("lock_acquire", c, Ok([dir[c] EXCEPT !.lockOwner = o], << >>), o)

\* lock.release() by the owner that holds it
ReleaseLock ==
  \E c \in {Current}, o \in Owners :
    /\ dir[c].lockOwner = o
    /\ Did("lock_release", c, Ok([dir[c] EXCEPT !.lockOwner = "none"], << >>),
           o)

\* fmu_dir.write_file(relative_path, data)
WriteFile ==
  \E c \in {Current}, f \in Paths, b \in Data :
    Did("write_file", c, write_file(dir[c], f, b), <<f, b>>)

\* fmu_dir.write_text_file(relative_path, content)
WriteTextFile ==
  \E c \in {Current}, f \in Paths, t \in Texts :
    Did("write_text_file", c, write_text_file(dir[c], f, t), <<f, t>>)

Next ==
  \/ Tick
  \/ AddLogEntry
  \/ FilterLog
  \/ SetConfigValue
  \/ UpdateStratigraphy
  \/ SaveMappings
  \/ MergeMappings
  \/ LogUpdate
  \/ SyncRuntimeVariables
  \/ UnlinkConfig
  \/ SaveEmptyLog
  \/ MergeChanges
  \/ GetChangelogDiff
  \/ GetMappingsDiff
  \/ GetDirDiff
  \/ SyncDir

Spec == Init /\ [][Next]_vars

\* the write helpers under the write lock: the lock is taken and released
\* by this process or by another one between the writes
NextWrite ==
  \/ AcquireLock
  \/ ReleaseLock
  \/ WriteFile
  \/ WriteTextFile

SpecWrite == Init /\ [][NextWrite]_vars

\* ------------------------------------------------------------ properties
\* the steps that are a call of the named operation
SyncStep == ops' = ops + 1 /\ last'.op = "sync_dir"
DirDiffStep == ops' = ops + 1 /\ last'.op = "get_dir_diff"
ChangelogDiffStep == ops' = ops + 1 /\ last'.op = "get_changelog_diff"

\* the entries of root with a timestamp strictly greater than T, in order
NewerThan(root, T) == SelectSeq(root, LAMBDA e : e.timestamp > T)
\* the config fields that take part in a diff
MergedFields == {"cache_max_revisions", "masterdata"}
ExemptFields == {"created_at", "created_by"}
\* a changelog file that exists and holds no entries
EmptyLogFile(D) == D.logE /\ Len(D.log) = 0
\* the three resource files of a directory hold the same as those of another
StructuralCopy(A, B) ==
  /\ A.cfgE = B.cfgE /\ A.cfg = B.cfg
  /\ A.logE = B.logE /\ A.log = B.log
  /\ A.mapE = B.mapE /\ A.map = B.map

\* C1: a sync_dir call on two directories whose changelogs exist (current's
\* not empty) returns, and current's changelog then reads: the entries it
\* held before, the incoming entries newer than its last entry in incoming's
\* order, the entries the config merge generated, those the mappings merge
\* generated, and last the merge-summary entry; no entry generated by the
\* sync precedes a merged one.
CE_C1 ==
  [][(SyncStep /\ dir[Current].logE /\ dir[Incoming].logE
      /\ Len(dir[Current].log) > 0)
     => /\ last'.exc = "none"
        /\ LET old == dir[Current].log
               merged == NewerThan(dir[Incoming].log, Last(old).timestamp)
               new == dir'[Current].log
               gen == SubSeq(new, Len(old) + Len(merged) + 1, Len(new))
           IN /\ IsPrefix(old \o merged, new)
              /\ Len(gen) >= 1
              /\ Last(gen).change_type = "merge"
              /\ \A k \in 1..Len(gen) : gen[k].path = Current
              /\ \A j, k \in 1..(Len(gen) - 1) :
                   j < k => ~(gen[j].file = "mappings.json"
                              /\ gen[k].file = "config.json")]_vars

\* C2: a sync_dir call that gets through its merges returns, having appended
\* exactly one entry of kind merge, which is the last entry of current's
\* changelog, carries current's path and names exactly the keys of the
\* mapping returned.
CE_C2 ==
  (last.op = "sync_dir"
   /\ last.stage \in {"log_merge_to_changelog", "returned"})
  => /\ last.exc = "none"
     /\ LET log == dir[Current].log
        IN /\ Len(log) > last.len0
           /\ Last(log).change_type = "merge"
           /\ Last(log).path = Current
           /\ Last(log).file = ResourcesString(last.updates)
           /\ Cardinality({k \in (last.len0 + 1)..Len(log) :
                             log[k].change_type = "merge"}) = 1

\* C3: sync_dir with an incoming directory that is a structural copy of the
\* current one returns an empty update mapping and appends no changelog
\* entry to the current directory.
CE_C3 ==
  [][(SyncStep /\ StructuralCopy(dir[Current], dir[Incoming]))
     => /\ last'.exc = "none"
        /\ last'.updates = << >>
        /\ dir'[Current].logE = dir[Current].logE
        /\ dir'[Current].log = dir[Current].log]_vars

\* C4: with both changelog files present (current's last entry at time T),
\* get_changelog_diff returns exactly the incoming entries with a timestamp
\* strictly greater than T, in incoming's order.
CE_C4 ==
  (last.op = "get_changelog_diff" /\ dir[Current].logE /\ dir[Incoming].logE
   /\ Len(dir[Current].log) > 0)
  => /\ last.exc = "none"
     /\ last.ret = NewerThan(dir[Incoming].log,
                             Last(dir[Current].log).timestamp)

\* C5: the changelog is append-only: over every call, returning or raising,
\* the changelog persisted before is a prefix of the one persisted after,
\* and a changelog file that exists keeps existing.
T_C5 ==
  [][\A d \in Dirs :
       dir[d].logE => (dir'[d].logE /\ IsPrefix(dir[d].log, dir'[d].log))]_vars

\* a sync_dir call has appended entries to a changelog that already held some
W_C5 ==
  /\ last.op = "sync_dir"
  /\ last.len0 >= 1
  /\ Len(dir[Current].log) > last.len0

\* C6: in every reachable state the timestamps of each directory's changelog
\* are non-decreasing in insertion order.
CE_C6 ==
  \A d \in Dirs : \A k \in 1..(Len(dir[d].log) - 1) :
    dir[d].log[k].timestamp <= dir[d].log[k + 1].timestamp

\* C7: with a current changelog file that holds no entries and a non-empty
\* incoming changelog, get_changelog_diff returns all of incoming's entries,
\* and get_dir_diff and sync_dir complete without raising.
CE_C7 ==
  [][(EmptyLogFile(dir[Current]) /\ dir[Incoming].logE
      /\ Len(dir[Incoming].log) > 0)
     => /\ ChangelogDiffStep
           => (last'.exc = "none" /\ last'.ret = dir[Incoming].log)
        /\ (DirDiffStep \/ SyncStep) => last'.exc = "none"]_vars

CE_C9 ==
  [][(SyncStep /\ dir[Current].cfgE /\ dir[Incoming].cfgE
      /\ ~EmptyLogFile(dir[Current]))
     => /\ last'.exc = "none"
        /\ \A f \in MergedFields :
             dir'[Current].cfg[f] = dir[Incoming].cfg[f]
        /\ get_resource_diff(dir'[Current], dir'[Incoming]).val = << >>]_vars

\* the resources whose file is missing in one of the two directories
MissingResources(C, I) ==
  {r \in {"config", "_changelog", "_mappings"} :
     \/ r = "config" /\ ~(C.cfgE /\ I.cfgE)
     \/ r = "_changelog" /\ ~(C.logE /\ I.logE)
     \/ r = "_mappings" /\ ~(C.mapE /\ I.mapE)}

\* C10: when the file of a resource is missing in one of the directories,
\* get_dir_diff and sync_dir raise no error: the resource has no key in the
\* diff nor in the mapping of sync_dir, and every resource present on both
\* sides is still diffed.
CE_C10 ==
  [][((DirDiffStep \/ SyncStep)
      /\ MissingResources(dir[Current], dir[Incoming]) # {}
      /\ ~EmptyLogFile(dir[Current]))
     => /\ last'.exc = "none"
        /\ \A r \in MissingResources(dir[Current], dir[Incoming]) :
             ~InSeq(r, last'.diff.keys) /\ ~InSeq(r, last'.updates)
        /\ \A r \in {"config", "_changelog", "_mappings"}
                      \ MissingResources(dir[Current], dir[Incoming]) :
             InSeq(r, last'.diff.keys)]_vars

\* the three resources get_dir_diff may report
Resources == {"config", "_changelog", "_mappings"}
\* the steps that are a call of the named operation
MappingsDiffStep == ops' = ops + 1 /\ last'.op = "get_mappings_diff"
MergeMappingsStep == ops' = ops + 1 /\ last'.op = "mappings_merge_changes"
UpdateStratigraphyStep ==
  ops' = ops + 1 /\ last'.op = "update_stratigraphy_mappings"
LogUpdateStep == ops' = ops + 1 /\ last'.op = "log_update_to_changelog"
AddLogEntryStep == ops' = ops + 1 /\ last'.op = "add_log_entry"
\* the three resource files exist in directory D
AllExist(D) == D.cfgE /\ D.logE /\ D.mapE

\* C11: the keys of get_dir_diff's result are among config, _changelog and
\* _mappings; a sync_dir call that got through its merges returns a mapping
\* whose keys are exactly the resources with a non-empty change list in the
\* diff.
CE_C11 ==
  /\ last.op \in {"get_dir_diff", "sync_dir"}
     => \A k \in 1..Len(last.diff.keys) : last.diff.keys[k] \in Resources
  /\ (last.op = "sync_dir"
      /\ last.stage \in {"log_merge_to_changelog", "returned"})
     => /\ last.exc = "none"
        /\ \A r \in Resources :
             InSeq(r, last.updates)
             <=> (InSeq(r, last.diff.keys) /\ ChangesLen(last.diff, r) > 0)

CE_C13 ==
  [][(MergeMappingsStep /\ last'.args.wells = None /\ dir[Current].mapE)
     => /\ last'.exc = "none"
        /\ last'.args.stratigraphy # None
           => dir'[Current].map.stratigraphy = last'.args.stratigraphy
        /\ last'.args.stratigraphy = None
           => /\ dir'[Current].map = dir[Current].map
              /\ dir'[Current].log = dir[Current].log]_vars

\* C14: with both mappings files present get_mappings_diff returns the whole
\* incoming record, and get_dir_diff reports it as the one mappings change.
T_C14 ==
  /\ (last.op = "get_mappings_diff"
      /\ dir[Current].mapE /\ dir[Incoming].mapE)
     => (last.exc = "none" /\ last.ret = dir[Incoming].map)
  /\ (last.op = "get_dir_diff" /\ last.exc = "none"
      /\ dir[Current].mapE /\ dir[Incoming].mapE)
     => /\ InSeq("_mappings", last.diff.keys)
        /\ ChangesLen(last.diff, "_mappings") = 1
        /\ last.diff.mappings = Some(dir[Incoming].map)

\* get_dir_diff reported the mappings of two directories whose mappings
\* records differ
W_C14 ==
  /\ last.op = "get_dir_diff" /\ last.exc = "none"
  /\ dir[Current].mapE /\ dir[Incoming].mapE
  /\ dir[Current].map # dir[Incoming].map
  /\ InSeq("_mappings", last.diff.keys)

\* C15: get_mappings_diff and get_changelog_diff raise FileNotFoundError
\* exactly when the resource file is missing on one side or both, and they
\* leave both directories as they were.
T_C15 ==
  [][/\ MappingsDiffStep
        => /\ dir' = dir
           /\ last'.exc = "FileNotFoundError"
              <=> ~(dir[Current].mapE /\ dir[Incoming].mapE)
     /\ ChangelogDiffStep
        => /\ dir' = dir
           /\ last'.exc = "FileNotFoundError"
              <=> ~(dir[Current].logE /\ dir[Incoming].logE)]_vars

\* get_changelog_diff raised for a changelog missing on the incoming side only
W_C15 ==
  /\ last.op = "get_changelog_diff"
  /\ last.exc = "FileNotFoundError"
  /\ dir[Current].logE /\ ~dir[Incoming].logE

\* C16: merge_changes with a payload whose wells are non-null raises
\* NotImplementedError, and so does a sync_dir that merges such mappings.
CE_C16 ==
  /\ (last.op = "mappings_merge_changes" /\ last.args.wells # None)
     => last.exc = "NotImplementedError"
  /\ (last.op = "sync_dir" /\ last.stage # "get_dir_diff"
      /\ InSeq("_mappings", last.diff.keys)
      /\ last.diff.mappings[1].wells # None)
     => last.exc = "NotImplementedError"

\* C17: when update_stratigraphy_mappings or merge_changes raises, the
\* mappings file is as it was before the call.
CE_C17 ==
  [][((UpdateStratigraphyStep \/ MergeMappingsStep) /\ last'.exc # "none")
     => /\ dir'[last'.c].mapE = dir[last'.c].mapE
        /\ dir'[last'.c].map = dir[last'.c].map]_vars

\* C18: the entry logged for a (key, value) pair is of kind add exactly when
\* the key is absent from the snapshot, and of kind update otherwise, a key
\* stored with None included; an update entry describes the old and the new
\* value, an add entry the new value.
T_C18 ==
  (last.op = "log_update_to_changelog" /\ last.exc = "none")
  => \A k \in 1..Len(last.args.updates) :
       LET e == dir[last.c].log[last.len0 + k]
           key == last.args.updates[k].key
           new == last.args.updates[k].new
       IN /\ e.key = key
          /\ e.change_type \in {"add", "update"}
          /\ e.change_type = "add" <=> key \notin DOMAIN last.args.old
          /\ key \in DOMAIN last.args.old
             => e.change = <<"Updated", key, Str(last.args.old[key]), Str(new)>>
          /\ key \notin DOMAIN last.args.old
             => e.change = <<"Added", key, Str(new)>>

\* a field logged as added is then logged as updated, and so is one stored
\* with None
W_C18 ==
  /\ last.op = "log_update_to_changelog" /\ last.exc = "none"
  /\ "x" \in DOMAIN last.args.old
  /\ Last(dir[last.c].log).change_type = "update"
  /\ \E k \in 1..Len(dir[last.c].log) :
       /\ dir[last.c].log[k].key = "x"
       /\ dir[last.c].log[k].change_type = "add"

\* C19: an update of n (key, value) pairs appends n entries, one per key in
\* the order of the pairs; each update_stratigraphy_mappings call appends one
\* entry for key stratigraphy, also when the value is the stored one.
CE_C19 ==
  [][/\ (LogUpdateStep /\ last'.exc = "none")
        => /\ Len(dir'[last'.c].log)
              = Len(dir[last'.c].log) + Len(last'.args.updates)
           /\ \A k \in 1..Len(last'.args.updates) :
                dir'[last'.c].log[Len(dir[last'.c].log) + k].key
                = last'.args.updates[k].key
     /\ UpdateStratigraphyStep
        => /\ last'.exc = "none"
           /\ Len(dir'[last'.c].log) = Len(dir[last'.c].log) + 1
           /\ Last(dir'[last'.c].log).key = "stratigraphy"]_vars

\* C20: add_log_entry with an invalid entry raises ValueError and leaves the
\* log as it was, a missing file staying missing; with a valid entry the log
\* is the previous one with that entry at the end, and the file exists.
T_C20 ==
  [][AddLogEntryStep
     => LET before == dir[last'.c]
            after == dir'[last'.c]
            entry == last'.args
        IN IF entry.change_type \in ChangeType /\ entry.file \in ChangeInfoFile
           THEN /\ last'.exc = "none"
                /\ after.logE
                /\ after.log
                   = (IF before.logE THEN before.log ELSE << >>) \o <<entry>>
           ELSE /\ last'.exc = "ValueError"
                /\ after.logE = before.logE
                /\ after.log = before.log]_vars

\* add_log_entry raised on an invalid entry in a directory without a log file
W_C20 ==
  /\ last.op = "add_log_entry"
  /\ last.exc = "ValueError"
  /\ last.args.change_type \notin ChangeType
  /\ ~dir[last.c].logE

\* ------------------------------------------------ properties, third part
\* the entries of root that satisfy the filter, in their order in root
Satisfies(e, f) ==
  IF f.field_name = "timestamp"
  THEN CASE f.operator = "==" -> e.timestamp = f.filter_value
         [] f.operator = "!=" -> e.timestamp # f.filter_value
         [] f.operator = "<=" -> ~(e.timestamp > f.filter_value)
         [] f.operator = ">=" -> ~(e.timestamp < f.filter_value)
  ELSE CASE f.operator = "==" -> e[f.field_name] = f.filter_value
         [] f.operator = "!=" -> ~(e[f.field_name] = f.filter_value)
Satisfying(root, f) ==
  SelectIdx(root, {k \in 1..Len(root) : Satisfies(root[k], f)}, 1)
\* a filter filter_log evaluates: one of the four operators, no ordering of
\* a 'str' field
Evaluated(f) ==
  /\ f.operator \in {"==", "!=", "<=", ">="}
  /\ ~(f.operator \in {"<=", ">="} /\ f.filter_type = "str")
\* ValueError and its subclass pydantic.ValidationError
IsValueError(exc) == exc \in {"ValueError", "ValidationError"}

\* C21: a cached table always holds the rows of the persisted log, so an
\* append after a filter_log call is seen by the next one; a filter_log call
\* that returns gives exactly the entries of the persisted log that satisfy
\* the filter, in log order; and on a log that holds entries it returns for
\* every filter it evaluates.
T_C21 ==
  /\ \A c \in Dirs :
       dir[c].df # None => dir[c].logE /\ dir[c].df = Some(dir[c].log)
  /\ last.op = "filter_log" =>
       /\ last.exc = "none" =>
            last.ret = Satisfying(dir[last.c].log, last.args)
       /\ (dir[last.c].logE /\ dir[last.c].log # << >> /\ Evaluated(last.args))
            => last.exc = "none"

\* a table was cached, an entry was appended, and filter_log then returned
\* the appended entry and left out the older one
W_C21 ==
  /\ last.op = "filter_log" /\ last.exc = "none"
  /\ Len(dir[last.c].log) = 2
  /\ last.ret = <<dir[last.c].log[2]>>
  /\ dir[last.c].log[1] = UsedEntry
  /\ dir[last.c].df = Some(dir[last.c].log)

\* C22: on an existing log, whatever it holds, filter_log with <= or >= and
\* filter type 'str', or with an operator outside ==, !=, <=, >=, raises a
\* ValueError and returns nothing.
T_C22 ==
  (/\ last.op = "filter_log"
   /\ dir[last.c].logE
   /\ ~Evaluated(last.args))
  => /\ IsValueError(last.exc)
     /\ last.ret = << >>

\* <= on a 'str' field of a log with entries raised ValueError
W_C22 ==
  /\ last.op = "filter_log"
  /\ last.args.operator = "<=" /\ last.args.filter_type = "str"
  /\ dir[last.c].logE /\ Len(dir[last.c].log) > 0
  /\ last.exc = "ValueError"

\* C23: a sync_dir call on two directories whose changelogs exist, incoming
\* holding entries newer than current's latest, returns a '_changelog' value
\* that equals current's changelog as persisted at the return: the pre-sync
\* entries, then the merged incoming entries, and the merge entry as its
\* last element.
CE_C23 ==
  (/\ last.op = "sync_dir"
   /\ dir[Incoming].logE
   /\ last.len0 > 0
   /\ NewerThan(dir[Incoming].log,
                dir[Current].log[last.len0].timestamp) # << >>)
  => /\ last.exc = "none"
     /\ InSeq("_changelog", last.updates)
     /\ last.ret = dir[Current].log
     /\ IsPrefix(SubSeq(dir[Current].log, 1, last.len0)
                   \o NewerThan(dir[Incoming].log,
                                dir[Current].log[last.len0].timestamp),
                 last.ret)
     /\ Last(last.ret).change_type = "merge"

\* the persisted resources of every directory are the same after the step
PersistedUnchanged(c) == StructuralCopy(dir'[c], dir[c])

\* C24: get_dir_diff is read-only: whether it returns or raises, the
\* persisted config, changelog and mappings of the current and of the
\* incoming directory are what they were before the call.
T_C24 ==
  [][DirDiffStep => PersistedUnchanged(Current) /\ PersistedUnchanged(Incoming)]_vars

\* get_dir_diff returned a diff of all three resources of two directories
\* whose mappings differ, and they still differ
W_C24 ==
  /\ last.op = "get_dir_diff" /\ last.exc = "none"
  /\ AllExist(dir[Current]) /\ AllExist(dir[Incoming])
  /\ last.diff.mappings = Some(dir[Incoming].map)
  /\ dir[Current].map # dir[Incoming].map

SyncRuntimeStep == ops' = ops + 1 /\ last'.op = "_sync_runtime_variables"
\* cache_max_revisions of the persisted config of D
PersistedMaxRevisions(D) == D.cfg.cache_max_revisions[1]

WriteStep ==
  ops' = ops + 1 /\ last'.op \in {"write_file", "write_text_file"}

\* C26: a write_file or write_text_file call made while another owner holds
\* the write lock raises PermissionError and leaves every file, directory
\* and the lock as they were; and no step changes a file while another
\* owner holds the lock.
T_C26 ==
  [][/\ (WriteStep /\ dir[Current].lockOwner = "other")
          => /\ last'.exc = "PermissionError"
             /\ dir' = dir
     /\ (\E c \in Dirs : dir'[c].files # dir[c].files
                         \/ dir'[c].subdirs # dir[c].subdirs)
          => dir[Current].lockOwner # "other"
    ]_vars

\* another owner holds the lock and a write to a file in a new subdirectory
\* was refused: no file, no subdirectory
W_C26 ==
  /\ last.op \in {"write_file", "write_text_file"}
  /\ last.args[1] = "nested/file.dat"
  /\ last.exc = "PermissionError"
  /\ dir[Current].lockOwner = "other"
  /\ dir[Current].files["nested/file.dat"] = None
  /\ dir[Current].subdirs = {}

\* the entries the call appended to current's changelog
Appended == SubSeq(dir'[Current].log, Len(dir[Current].log) + 1,
                   Len(dir'[Current].log))
\* the step is a sync_dir call that raised while merging a resource
SyncFailedMerging ==
  /\ SyncStep
  /\ last'.exc # "none"
  /\ last'.stage \in {"merge_changelog", "merge_resources"}

\* C27: when sync_dir raises while merging a resource, the call appends no
\* merge entry, and what it merged before stays: the entries already in and
\* appended to current's changelog, one entry per config field merged, the
\* merged config fields holding incoming's values, and a stratigraphy that
\* was saved before the failure.
T_C27 ==
  [][SyncFailedMerging =>
       /\ IsPrefix(dir[Current].log, dir'[Current].log)
       /\ \A k \in 1..Len(Appended) :
            /\ Appended[k].change_type # "merge"
            /\ Appended[k].key # ".fmu"
       /\ InSeq("config", last'.updates) =>
            /\ \A f \in MergedFields :
                 dir'[Current].cfg[f] = dir[Incoming].cfg[f]
            /\ Len(Appended) >= Len(last'.diff.config)
            /\ Len(last'.diff.config) > 0
       /\ (last'.exc = "ValidationError"
           /\ last'.diff.mappings # None
           /\ last'.diff.mappings[1].stratigraphy # None) =>
            dir'[Current].map.stratigraphy
              = dir[Incoming].map.stratigraphy
    ]_vars

\* sync_dir merged the config, then raised in the mappings merge: the
\* config change and its changelog entry are in current, no merge entry is
W_C27 ==
  /\ last.op = "sync_dir"
  /\ last.stage = "merge_resources" /\ last.exc # "none"
  /\ last.updates = <<"config">>
  /\ dir[Current].cfg.masterdata = Some(1)
  /\ dir[Incoming].cfg.masterdata = Some(1)
  /\ Len(dir[Current].log) = last.len0 + 1
  /\ Last(dir[Current].log).key = "masterdata"

Count(e, s) == Cardinality({k \in 1..Len(s) : s[k] = e})

CE_C30 ==
  [][(SyncStep /\ dir[Current].logE /\ dir[Incoming].logE)
     => /\ last'.exc = "none"
        /\ \A k \in 1..Len(dir[Incoming].log) :
             InSeq(dir[Incoming].log[k], dir'[Current].log)]_vars

====
